---- MODULE Spec2Model ----
(***************************************************************************)
(* A model of cppStream.hpp (namespace yaossg::stream): the pull protocol  *)
(* front / next / endless of the stream structs, the terminal builders     *)
(* and the type-erased AnyStream wrapper.                                  *)
(*                                                                         *)
(* A stream object is a record whose field "kind" names its struct and     *)
(* whose other fields are the struct's data members.  A member function    *)
(* that changes the object returns the changed object beside its result:   *)
(*   next(s)  = [ok |-> what next() returned, s |-> the object afterwards] *)
(*   front(s) = [def |-> "value" | "throws" | "undefined",                 *)
(*               v |-> the element read, s |-> the object afterwards]      *)
(* def is "throws" where the code raises (optional::value() on an empty    *)
(* optional) and "undefined" where it reads what is not there (operator*   *)
(* on an empty optional, an iterator that was never set).                  *)
(***************************************************************************)
EXTENDS Integers, Sequences, FiniteSets, TLC

\* ------------------------------------------------------------- bounds
\* longest container handed to from()
MaxLen == 2
\* elements are 0..MaxVal
MaxVal == 2
\* width in bits of IntType (IntegerStream), an unsigned type
IntBits == 2
\* width in bits of size_t in the model
SizeBits == 3
\* largest count handed to take() / skip() / element_at()
MaxCount == 3
\* StreamHolder instances allocated in one run
MaxAlloc == 3

Values == 0..MaxVal
IntMod == 2^IntBits
SizeMod == 2^SizeBits
Data == UNION {[1..n -> Values] : n \in 0..MaxLen}
\* the longest run of pulls the consumer of an endless pipeline makes
MaxOut == 3 * MaxLen + 1
MaxPulls == MaxLen + 3

\* Bind(v, Body) is Body(v) with v evaluated once: the local of a member
\* function that holds the result of a call.
Bind(v, Body(_)) == CHOOSE y \in {Body(x) : x \in {v}} : TRUE

\* ------------------------------------------------------ std::optional
nullopt == <<>>
optional(v) == <<v>>
has_value(o) == Len(o) > 0
value(o) == o[1]

\* ------------------------------------------------------ user callables
\* The functions handed to combine_streams, by name.  "add" and "first"
\* return a plain value, "addIfEven" returns std::optional and is absent on
\* an odd sum.
Preds == {"add", "first", "addIfEven"}
TotalPreds == {"add", "first"}
RECURSIVE Sum(_)
Sum(vs) == IF vs = <<>> THEN 0 ELSE vs[1] + Sum(Tail(vs))
invoke(pred, vs) ==
  CASE pred = "add" -> optional(Sum(vs))
    [] pred = "first" -> optional(vs[1])
    [] pred = "addIfEven" -> IF Sum(vs) % 2 = 0 THEN optional(Sum(vs)) ELSE nullopt

\* -------------------------------------------------------- constructors
EmptyStream == [kind |-> "Empty"]
\* current and upcoming are positions in data; Len(data) + 1 is last
IteratorStream(data, unchecked) ==
  [kind |-> "Iterator", data |-> data, current |-> 1, upcoming |-> 1,
   unchecked |-> unchecked]
\* The iterator is a position in the sequence it runs over; nothing in the
\* stream knows where that sequence ends.
EndlessIteratorStream(data) ==
  [kind |-> "EndlessIterator", data |-> data, current |-> 1, upcoming |-> 1]
\* a constructor that starts at first itself instead of one step before it
IntegerStreamAtFirst(first, step) ==
  [kind |-> "Integer", current |-> first % IntMod, step |-> step]
IntegerStream(first, step) ==
  [kind |-> "Integer", current |-> (first - step) % IntMod, step |-> step]
TakeStream(stream, count) ==
  [kind |-> "Take", stream |-> stream, count |-> (count + 1) % SizeMod]
SkipStream(stream, count) ==
  [kind |-> "Skip", stream |-> stream, count |-> (count + 1) % SizeMod]
TailRepeatStream(stream) ==
  [kind |-> "TailRepeat", stream |-> stream, left |-> TRUE, cache |-> nullopt]
JoinStreamAB(streamA, streamB) ==
  [kind |-> "Join", streamA |-> streamA, streamB |-> streamB, B |-> FALSE]
\* JoinStreams<StreamA, Streams...> nests pairwise to the right
RECURSIVE JoinStreams(_)
JoinStreams(streams) ==
  IF Len(streams) = 2 THEN JoinStreamAB(streams[1], streams[2])
  ELSE JoinStreamAB(streams[1], JoinStreams(Tail(streams)))
CombineStreams(pred, streams) ==
  [kind |-> "Combine", pred |-> pred, cache |-> nullopt, streams |-> streams]
\* An AnyStream owning its holder alone: the StreamHolder's stream member is
\* held inline (copies of the wrapper clone the holder, so it is never shared).
AnyStream(stream) == [kind |-> "Any", holder |-> stream]

RECURSIVE next(_), front(_), endless(_)

\* ------------------------------------------------------------ sources
EmptyNext(s) == [ok |-> FALSE, s |-> s]
EmptyFront(s) == [def |-> "undefined", v |-> 0, s |-> s]
EmptyEndless(s) == FALSE

IteratorFront(s) ==
  IF s.current \in DOMAIN s.data
  THEN [def |-> "value", v |-> s.data[s.current], s |-> s]
  ELSE [def |-> "undefined", v |-> 0, s |-> s]
IteratorNext(s) ==
  IF s.upcoming = Len(s.data) + 1 THEN [ok |-> FALSE, s |-> s]
  ELSE [ok |-> TRUE,
        s |-> [s EXCEPT !.current = s.upcoming, !.upcoming = s.upcoming + 1]]
IteratorEndless(s) == s.unchecked

\* *current; past the end of the sequence there is nothing to read
EndlessIteratorFront(s) ==
  IF s.current \in DOMAIN s.data
  THEN [def |-> "value", v |-> s.data[s.current], s |-> s]
  ELSE [def |-> "undefined", v |-> 0, s |-> s]
\* current = upcoming++, true: no test against any end
EndlessIteratorNext(s) ==
  [ok |-> TRUE,
   s |-> [s EXCEPT !.current = s.upcoming, !.upcoming = s.upcoming + 1]]
EndlessIteratorEndless(s) == TRUE

IntegerFront(s) == [def |-> "value", v |-> s.current, s |-> s]
IntegerNext(s) ==
  [ok |-> TRUE, s |-> [s EXCEPT !.current = (s.current + s.step) % IntMod]]
IntegerEndless(s) == TRUE

\* ------------------------------------------------------- take and skip
TakeFront(s) ==
  Bind(front(s.stream),
       LAMBDA f : [def |-> f.def, v |-> f.v, s |-> [s EXCEPT !.stream = f.s]])
\* next() asking the upstream first: stream.next() && count && --count != 0
TakeNextEager(s) ==
  Bind(next(s.stream),
       LAMBDA r :
         IF ~r.ok \/ s.count = 0 THEN [ok |-> FALSE, s |-> [s EXCEPT !.stream = r.s]]
         ELSE [ok |-> s.count - 1 # 0,
               s |-> [s EXCEPT !.count = s.count - 1, !.stream = r.s]])
\* count && --count != 0 && stream.next()
TakeNext(s) ==
  IF s.count = 0 THEN [ok |-> FALSE, s |-> s]
  ELSE IF s.count - 1 = 0 THEN [ok |-> FALSE, s |-> [s EXCEPT !.count = 0]]
  ELSE Bind(next(s.stream),
            LAMBDA r : [ok |-> r.ok,
                        s |-> [s EXCEPT !.count = s.count - 1, !.stream = r.s]])
TakeEndless(s) == FALSE

SkipFront(s) ==
  Bind(front(s.stream),
       LAMBDA f : [def |-> f.def, v |-> f.v, s |-> [s EXCEPT !.stream = f.s]])
\* while(count && --count != 0 && stream.next());
RECURSIVE SkipLoop(_)
SkipLoop(s) ==
  IF s.count = 0 THEN s
  ELSE IF s.count - 1 = 0 THEN [s EXCEPT !.count = 0]
  ELSE Bind(next(s.stream),
            LAMBDA r :
              IF r.ok
              THEN Bind([s EXCEPT !.count = s.count - 1, !.stream = r.s], SkipLoop)
              ELSE [s EXCEPT !.count = s.count - 1, !.stream = r.s])
SkipNext(s) ==
  Bind(SkipLoop(s),
       LAMBDA d : Bind(next(d.stream),
                       LAMBDA r : [ok |-> r.ok, s |-> [d EXCEPT !.stream = r.s]]))
SkipEndless(s) == endless(s.stream)

\* --------------------------------------------------------- tail_repeat
TailRepeatFront(s) ==
  IF s.left
  THEN Bind(front(s.stream),
            LAMBDA f : [def |-> f.def, v |-> f.v,
                        s |-> [s EXCEPT !.stream = f.s, !.cache = optional(f.v)]])
  ELSE IF has_value(s.cache)
       THEN [def |-> "value", v |-> value(s.cache), s |-> s]
       ELSE [def |-> "throws", v |-> 0, s |-> s]
TailRepeatNext(s) ==
  Bind(next(s.stream),
       LAMBDA r : [ok |-> TRUE,
                   s |-> [s EXCEPT !.stream = r.s,
                                   !.left = IF r.ok THEN s.left ELSE FALSE]])
TailRepeatEndless(s) == TRUE

\* ---------------------------------------------------------------- join
\* front() without the B switch: always stream A's element
JoinFrontA(s) ==
  Bind(front(s.streamA),
       LAMBDA f : [def |-> f.def, v |-> f.v, s |-> [s EXCEPT !.streamA = f.s]])
JoinFront(s) ==
  IF s.B
  THEN Bind(front(s.streamB),
            LAMBDA f : [def |-> f.def, v |-> f.v, s |-> [s EXCEPT !.streamB = f.s]])
  ELSE Bind(front(s.streamA),
            LAMBDA f : [def |-> f.def, v |-> f.v, s |-> [s EXCEPT !.streamA = f.s]])
JoinNext(s) ==
  Bind(next(s.streamA),
       LAMBDA a :
         IF a.ok THEN [ok |-> TRUE, s |-> [s EXCEPT !.streamA = a.s]]
         ELSE Bind(next(s.streamB),
                   LAMBDA b : [ok |-> b.ok,
                               s |-> [s EXCEPT !.streamA = a.s, !.B = TRUE,
                                               !.streamB = b.s]]))
\* endless() with && in place of ||
JoinEndlessAll(s) == endless(s.streamA) /\ endless(s.streamB)
JoinEndless(s) == endless(s.streamA) \/ endless(s.streamB)

\* ------------------------------------------------------------- combine
\* (streams.next() && ...): left to right, stopping at the first false.
\* a is [ok, streams, i]: the fold so far and the stream to advance next.
RECURSIVE AllNext(_)
AllNext(a) ==
  IF a.i > Len(a.streams) THEN [ok |-> TRUE, streams |-> a.streams]
  ELSE Bind(next(a.streams[a.i]),
            LAMBDA r :
              IF r.ok
              THEN Bind([a EXCEPT !.streams[a.i] = r.s, !.i = a.i + 1], AllNext)
              ELSE [ok |-> FALSE, streams |-> [a.streams EXCEPT ![a.i] = r.s]])
\* (streams.next() || ...): a cycle succeeds when any stream does
RECURSIVE SomeNext(_)
SomeNext(a) ==
  IF a.i > Len(a.streams) THEN [ok |-> FALSE, streams |-> a.streams]
  ELSE Bind(next(a.streams[a.i]),
            LAMBDA r :
              IF r.ok
              THEN [ok |-> TRUE, streams |-> [a.streams EXCEPT ![a.i] = r.s]]
              ELSE Bind([a EXCEPT !.streams[a.i] = r.s, !.i = a.i + 1], SomeNext))
\* streams.front()...: a is [vs, streams, i]
RECURSIVE Fronts(_)
Fronts(a) ==
  IF a.i > Len(a.streams) THEN [vs |-> a.vs, streams |-> a.streams]
  ELSE Bind(front(a.streams[a.i]),
            LAMBDA f : Bind([vs |-> Append(a.vs, f.v),
                             streams |-> [a.streams EXCEPT ![a.i] = f.s],
                             i |-> a.i + 1], Fronts))
CombineFront(s) ==
  IF has_value(s.cache)
  THEN [def |-> "value", v |-> value(s.cache), s |-> s]
  ELSE [def |-> "undefined", v |-> 0, s |-> s]
CombineAdvanceSome(streams) == SomeNext([streams |-> streams, i |-> 1])
CombineAdvance(streams) == AllNext([streams |-> streams, i |-> 1])
CombineNext(s) ==
  Bind(CombineAdvance(s.streams),
       LAMBDA a :
         IF ~a.ok THEN [ok |-> FALSE, s |-> [s EXCEPT !.streams = a.streams]]
         ELSE Bind(Fronts([vs |-> <<>>, streams |-> a.streams, i |-> 1]),
                   LAMBDA f : [ok |-> TRUE,
                               s |-> [s EXCEPT !.streams = f.streams,
                                               !.cache = invoke(s.pred, f.vs)]]))
all_of(streams) == \A i \in DOMAIN streams : endless(streams[i])
CombineEndless(s) == all_of(s.streams)

\* ---------------------------------------------------------------- flat
\* the constructor's loop: while(stream.next()) streams.push_back(stream.front());
\* a is [stream, streams]
RECURSIVE FlatCollect(_)
FlatCollect(a) ==
  Bind(next(a.stream),
       LAMBDA r :
         IF r.ok
         THEN Bind(front(r.s),
                   LAMBDA f : Bind([stream |-> f.s, streams |-> Append(a.streams, f.v)],
                                   FlatCollect))
         ELSE a.streams)
\* current counts from 0 as in the code: streams[current] is streams[current + 1] here
FlatStream(stream) ==
  [kind |-> "Flat", streams |-> FlatCollect([stream |-> stream, streams |-> <<>>]),
   current |-> 0]
FlatFront(s) ==
  IF s.current < Len(s.streams)
  THEN Bind(front(s.streams[s.current + 1]),
            LAMBDA f : [def |-> f.def, v |-> f.v,
                        s |-> [s EXCEPT !.streams[s.current + 1] = f.s]])
  ELSE [def |-> "undefined", v |-> 0, s |-> s]
RECURSIVE FlatNext(_)
FlatNext(s) ==
  IF s.current = Len(s.streams) THEN [ok |-> FALSE, s |-> s]
  ELSE Bind(next(s.streams[s.current + 1]),
            LAMBDA r :
              IF r.ok
              THEN [ok |-> TRUE, s |-> [s EXCEPT !.streams[s.current + 1] = r.s]]
              ELSE Bind([s EXCEPT !.streams[s.current + 1] = r.s,
                                  !.current = s.current + 1], FlatNext))
FlatEndless(s) == all_of(s.streams)

\* ---------------------------------------------------------- take_while
\* the predicates handed to take_while and to the match builders, by name
Predicates == {"isZero", "isEven"}
test(pred, v) ==
  CASE pred = "isZero" -> v = 0
    [] pred = "isEven" -> v % 2 = 0
\* The predicate is a function object held by value: pred.calls counts its
\* invocations, as a counting functor of the caller's would.
Functor(name) == [name |-> name, calls |-> 0]
TakeWhileStream(stream, pred) ==
  [kind |-> "TakeWhile", stream |-> stream, pred |-> pred, left |-> TRUE]
TakeWhileFront(s) ==
  Bind(front(s.stream),
       LAMBDA f : [def |-> f.def, v |-> f.v, s |-> [s EXCEPT !.stream = f.s]])
\* next() without the latch: stream.next() && pred(stream.front())
TakeWhileNextUnlatched(s) ==
  Bind(next(s.stream),
       LAMBDA r :
         IF ~r.ok THEN [ok |-> FALSE, s |-> [s EXCEPT !.stream = r.s, !.left = FALSE]]
         ELSE Bind(front(r.s),
                   LAMBDA f :
                     [ok |-> test(s.pred.name, f.v),
                      s |-> [s EXCEPT !.stream = f.s,
                                      !.pred.calls = @ + 1,
                                      !.left = test(s.pred.name, f.v)]]))
\* left && (left = (stream.next() && std::invoke(pred, stream.front())))
TakeWhileNext(s) ==
  IF ~s.left THEN [ok |-> FALSE, s |-> s]
  ELSE Bind(next(s.stream),
            LAMBDA r :
              IF ~r.ok
              THEN [ok |-> FALSE, s |-> [s EXCEPT !.stream = r.s, !.left = FALSE]]
              ELSE Bind(front(r.s),
                        LAMBDA f :
                          [ok |-> test(s.pred.name, f.v),
                           s |-> [s EXCEPT !.stream = f.s,
                                           !.pred.calls = @ + 1,
                                           !.left = test(s.pred.name, f.v)]]))
TakeWhileEndless(s) == endless(s.stream)

\* ---------------------------------------------------------------- loop
LoopStream(stream) == [kind |-> "Loop", stream |-> stream, cache |-> stream]
LoopFront(s) ==
  Bind(front(s.stream),
       LAMBDA f : [def |-> f.def, v |-> f.v, s |-> [s EXCEPT !.stream = f.s]])
\* while(!stream.next()) stream = cache; return true;
RECURSIVE LoopNext(_)
LoopNext(s) ==
  Bind(next(s.stream),
       LAMBDA r :
         IF r.ok THEN [ok |-> TRUE, s |-> [s EXCEPT !.stream = r.s]]
         ELSE Bind([s EXCEPT !.stream = s.cache], LoopNext))
LoopEndless(s) == TRUE

\* --------------------------------------------------------- endless_flat
\* front() of the outer stream returns a reference to the inner stream:
\* store(s, v) is s after v was written through the reference its front()
\* returned.
RECURSIVE store(_, _)
store(s, v) ==
  CASE s.kind = "Iterator" -> [s EXCEPT !.data[s.current] = v]
    [] s.kind = "Probe" -> [s EXCEPT !.stream = store(s.stream, v)]
    [] OTHER -> s
EndlessFlatStream(stream) ==
  [kind |-> "EndlessFlat", stream |-> stream, left |-> FALSE]
\* stream.front().front()
EndlessFlatFront(s) ==
  Bind(front(s.stream),
       LAMBDA f :
         IF f.def # "value" THEN [def |-> f.def, v |-> 0, s |-> s]
         ELSE Bind(front(f.v),
                   LAMBDA g : [def |-> g.def, v |-> g.v,
                               s |-> [s EXCEPT !.stream = store(f.s, g.s)]]))
\* stream.front().next(): a is the EndlessFlatStream
EndlessFlatInnerNext(s) ==
  Bind(front(s.stream),
       LAMBDA f : Bind(next(f.v),
                       LAMBDA r : [ok |-> r.ok,
                                   s |-> [s EXCEPT !.stream = store(f.s, r.s)]]))
\* (left = (left = false, stream.next())) && stream.front().next()
EndlessFlatOuterNext(s) ==
  Bind(next(s.stream),
       LAMBDA r :
         IF ~r.ok THEN [ok |-> FALSE, s |-> [s EXCEPT !.stream = r.s, !.left = FALSE]]
         ELSE Bind([s EXCEPT !.stream = r.s, !.left = TRUE], EndlessFlatInnerNext))
\* next() advancing the outer stream on every call
EndlessFlatNextEager(s) == EndlessFlatOuterNext(s)
\* (left && stream.front().next()) || (...)
EndlessFlatNext(s) ==
  IF s.left
  THEN Bind(EndlessFlatInnerNext(s),
            LAMBDA r : IF r.ok THEN r ELSE Bind(r.s, EndlessFlatOuterNext))
  ELSE EndlessFlatOuterNext(s)
EndlessFlatEndless(s) == TRUE

\* ------------------------------------------------- a stream of the caller's
\* Any type with front(), next() and endless() can stand upstream of a stage.
\* Probe forwards to the stream it holds and counts the calls made on it:
\* nexts, those of them that returned false (fails), and fronts.
Probe(stream) ==
  [kind |-> "Probe", stream |-> stream, nexts |-> 0, fails |-> 0, fronts |-> 0]
ProbeFront(s) ==
  Bind(front(s.stream),
       LAMBDA f : [def |-> f.def, v |-> f.v,
                   s |-> [s EXCEPT !.stream = f.s, !.fronts = @ + 1]])
ProbeNext(s) ==
  Bind(next(s.stream),
       LAMBDA r : [ok |-> r.ok,
                   s |-> [s EXCEPT !.stream = r.s, !.nexts = @ + 1,
                                   !.fails = IF r.ok THEN @ ELSE @ + 1]])
ProbeEndless(s) == endless(s.stream)

\* ----------------------------------------------------------- AnyStream
AnyFront(s) ==
  Bind(front(s.holder),
       LAMBDA f : [def |-> f.def, v |-> f.v, s |-> [s EXCEPT !.holder = f.s]])
AnyNext(s) ==
  Bind(next(s.holder), LAMBDA r : [ok |-> r.ok, s |-> [s EXCEPT !.holder = r.s]])
AnyEndless(s) == endless(s.holder)

\* ------------------------------------------------------------ dispatch
next(s) ==
  CASE s.kind = "Empty" -> EmptyNext(s)
    [] s.kind = "Iterator" -> IteratorNext(s)
    [] s.kind = "Integer" -> IntegerNext(s)
    [] s.kind = "Take" -> TakeNext(s)
    [] s.kind = "Skip" -> SkipNext(s)
    [] s.kind = "TailRepeat" -> TailRepeatNext(s)
    [] s.kind = "Join" -> JoinNext(s)
    [] s.kind = "Combine" -> CombineNext(s)
    [] s.kind = "Flat" -> FlatNext(s)
    [] s.kind = "Any" -> AnyNext(s)
    [] s.kind = "TakeWhile" -> TakeWhileNext(s)
    [] s.kind = "Loop" -> LoopNext(s)
    [] s.kind = "EndlessFlat" -> EndlessFlatNext(s)
    [] s.kind = "Probe" -> ProbeNext(s)
    [] s.kind = "EndlessIterator" -> EndlessIteratorNext(s)
front(s) ==
  CASE s.kind = "Empty" -> EmptyFront(s)
    [] s.kind = "Iterator" -> IteratorFront(s)
    [] s.kind = "Integer" -> IntegerFront(s)
    [] s.kind = "Take" -> TakeFront(s)
    [] s.kind = "Skip" -> SkipFront(s)
    [] s.kind = "TailRepeat" -> TailRepeatFront(s)
    [] s.kind = "Join" -> JoinFront(s)
    [] s.kind = "Combine" -> CombineFront(s)
    [] s.kind = "Flat" -> FlatFront(s)
    [] s.kind = "Any" -> AnyFront(s)
    [] s.kind = "TakeWhile" -> TakeWhileFront(s)
    [] s.kind = "Loop" -> LoopFront(s)
    [] s.kind = "EndlessFlat" -> EndlessFlatFront(s)
    [] s.kind = "Probe" -> ProbeFront(s)
    [] s.kind = "EndlessIterator" -> EndlessIteratorFront(s)
endless(s) ==
  CASE s.kind = "Empty" -> EmptyEndless(s)
    [] s.kind = "Iterator" -> IteratorEndless(s)
    [] s.kind = "Integer" -> IntegerEndless(s)
    [] s.kind = "Take" -> TakeEndless(s)
    [] s.kind = "Skip" -> SkipEndless(s)
    [] s.kind = "TailRepeat" -> TailRepeatEndless(s)
    [] s.kind = "Join" -> JoinEndless(s)
    [] s.kind = "Combine" -> CombineEndless(s)
    [] s.kind = "Flat" -> FlatEndless(s)
    [] s.kind = "Any" -> AnyEndless(s)
    [] s.kind = "TakeWhile" -> TakeWhileEndless(s)
    [] s.kind = "Loop" -> LoopEndless(s)
    [] s.kind = "EndlessFlat" -> EndlessFlatEndless(s)
    [] s.kind = "Probe" -> ProbeEndless(s)
    [] s.kind = "EndlessIterator" -> EndlessIteratorEndless(s)

\* ------------------------------------------------------------ factories
\* A pair of iterators (first, last) is the sequence between them, and so is
\* a container; an iterator alone is the sequence it starts.
from_endless_iterator(data) == EndlessIteratorStream(data)
from_iterator(data) == IteratorStream(data, FALSE)
from(data) == from_iterator(data)
from_unchecked_iterator(data) == IteratorStream(data, TRUE)
from_unchecked(data) == from_iterator(data)
iota(first, step) == IntegerStream(first, step)
take(stream, count) == TakeStream(stream, count)
skip(stream, count) == SkipStream(stream, count)
tail_repeat(stream) == TailRepeatStream(stream)
join_streams(streams) == JoinStreams(streams)
\* CombineStreams(pred, streams...) as its constructor builds it
combine_streams(pred, streams) == CombineStreams(pred, streams)
\* flat() over a container of type-erased streams
RECURSIVE Wrapped(_)
Wrapped(streams) ==
  IF streams = <<>> THEN <<>>
  ELSE <<AnyStream(streams[1])>> \o Wrapped(Tail(streams))
flat(streams) == FlatStream(IteratorStream(Wrapped(streams), FALSE))
take_while(stream, pred) == TakeWhileStream(stream, Functor(pred))
loop(stream) == LoopStream(stream)
endless_flat(stream) == EndlessFlatStream(stream)

\* =================================================== terminal operations
\* The callables handed to the terminal builders, by name.
Compares == {"less", "greater", "byHalf"}
compare(cmp, a, b) ==
  CASE cmp = "less" -> a < b
    [] cmp = "greater" -> a > b
    [] cmp = "byHalf" -> (a \div 2) < (b \div 2)
\* std::min(a, b, comp) and std::max(a, b, comp) as the builders call them
std_min(a, b, cmp) == IF compare(cmp, b, a) THEN b ELSE a
std_max(a, b, cmp) == IF compare(cmp, a, b) THEN b ELSE a

\* true when throw_if_endless(stream) throws endless_stream_exception
throw_if_endless(stream) == endless(stream)

\* What a build() call did: whether it threw endless_stream_exception, how
\* many next() calls it made on its stream, how many times it invoked the
\* callable it was given, what it returned, its stream afterwards, and how a
\* front() it made went wrong, if one did.
Res(op, thrown, nexts, calls, ret, s, flt) ==
  [op |-> op, arg |-> "", thrown |-> thrown, nexts |-> nexts, calls |-> calls,
   ret |-> ret, s |-> s, fault |-> flt]
NoRes == Res("", FALSE, 0, 0, <<>>, EmptyStream, "none")
Thrown(op, stream) == Res(op, TRUE, 0, 0, <<>>, stream, "none")
FaultOf(f) == IF f.def = "value" THEN "none" ELSE f.def

\* stream.next() ? std::optional(stream.front()) : std::nullopt
FirstOrNullopt(stream) ==
  Bind(next(stream),
       LAMBDA r :
         IF r.ok
         THEN Bind(front(r.s),
                   LAMBDA f : [init |-> optional(f.v), stream |-> f.s,
                               fault |-> FaultOf(f)])
         ELSE [init |-> nullopt, stream |-> r.s, fault |-> "none"])

\* The loops below carry a = [stream, acc, nexts, calls, arg]: the stream, the
\* loop's local, the calls made so far and the callable's name.
Loop(stream, acc, nexts, calls, arg) ==
  [stream |-> stream, acc |-> acc, nexts |-> nexts, calls |-> calls, arg |-> arg]
Done(op, a) ==
  [Res(op, FALSE, a.nexts, a.calls, a.acc, a.stream, "none") EXCEPT !.arg = a.arg]

\* while(stream.next()) std::invoke(pred, stream.front());
RECURSIVE ForEachLoop(_)
ForEachLoop(a) ==
  Bind(next(a.stream),
       LAMBDA r :
         IF r.ok
         THEN Bind(front(r.s),
                   LAMBDA f : Bind(Loop(f.s, Append(a.acc, f.v), a.nexts + 1,
                                        a.calls + 1, a.arg), ForEachLoop))
         ELSE Loop(r.s, a.acc, a.nexts + 1, a.calls, a.arg))
\* the callable appends what it is given to a log, which is what is returned here
ForEachBuild(stream) ==
  IF throw_if_endless(stream) THEN Thrown("for_each", stream)
  ELSE Done("for_each", ForEachLoop(Loop(stream, <<>>, 0, 0, "log")))

\* while(stream.next()) init = std::invoke(biPred, init.value(), stream.front());
RECURSIVE ReduceLoop(_)
ReduceLoop(a) ==
  Bind(next(a.stream),
       LAMBDA r :
         IF r.ok
         THEN Bind(front(r.s),
                   LAMBDA f : Bind(Loop(f.s, optional(value(a.acc) + f.v),
                                        a.nexts + 1, a.calls + 1, a.arg), ReduceLoop))
         ELSE Loop(r.s, a.acc, a.nexts + 1, a.calls, a.arg))
\* the check made only after the first element was read
ReduceBuildLate(stream) ==
  Bind(FirstOrNullopt(stream),
       LAMBDA h :
         IF throw_if_endless(stream) THEN Res("reduce", TRUE, 1, 0, <<>>, h.stream, "none")
         ELSE Done("reduce", ReduceLoop(Loop(h.stream, h.init, 1, 0, "add"))))
ReduceBuild(stream) ==
  IF throw_if_endless(stream) THEN Thrown("reduce", stream)
  ELSE Bind(FirstOrNullopt(stream),
            LAMBDA h : Done("reduce", ReduceLoop(Loop(h.stream, h.init, 1, 0, "add"))))

\* while(stream.next()) init = std::min(stream.front(), init.value(), compare);
RECURSIVE MinLoop(_)
MinLoop(a) ==
  Bind(next(a.stream),
       LAMBDA r :
         IF r.ok
         THEN Bind(front(r.s),
                   LAMBDA f : Bind(Loop(f.s, optional(std_min(f.v, value(a.acc), a.arg)),
                                        a.nexts + 1, a.calls + 1, a.arg), MinLoop))
         ELSE Loop(r.s, a.acc, a.nexts + 1, a.calls, a.arg))
MinBuild(stream, cmp) ==
  IF throw_if_endless(stream) THEN Thrown("min", stream)
  ELSE Bind(FirstOrNullopt(stream),
            LAMBDA h : Done("min", MinLoop(Loop(h.stream, h.init, 1, 0, cmp))))

\* while(stream.next()) init = std::max(stream.front(), init.value(), compare);
RECURSIVE MaxLoop(_)
MaxLoop(a) ==
  Bind(next(a.stream),
       LAMBDA r :
         IF r.ok
         THEN Bind(front(r.s),
                   LAMBDA f : Bind(Loop(f.s, optional(std_max(f.v, value(a.acc), a.arg)),
                                        a.nexts + 1, a.calls + 1, a.arg), MaxLoop))
         ELSE Loop(r.s, a.acc, a.nexts + 1, a.calls, a.arg))
MaxBuild(stream, cmp) ==
  IF throw_if_endless(stream) THEN Thrown("max", stream)
  ELSE Bind(FirstOrNullopt(stream),
            LAMBDA h : Done("max", MaxLoop(Loop(h.stream, h.init, 1, 0, cmp))))

\* while(stream.next()) { min = std::min(stream.front(), min, compare);
\*                        max = std::max(stream.front(), max, compare); }
\* acc is the optional pair <<min, max>>
RECURSIVE MinMaxLoop(_)
MinMaxLoop(a) ==
  Bind(next(a.stream),
       LAMBDA r :
         IF r.ok
         THEN Bind(front(r.s),
                   LAMBDA f :
                     Bind(front(f.s),
                          LAMBDA g :
                            Bind(Loop(g.s,
                                      optional(<<std_min(f.v, value(a.acc)[1], a.arg),
                                                 std_max(g.v, value(a.acc)[2], a.arg)>>),
                                      a.nexts + 1, a.calls + 2, a.arg), MinMaxLoop)))
         ELSE Loop(r.s, a.acc, a.nexts + 1, a.calls, a.arg))
MinMaxBuild(stream, cmp) ==
  IF throw_if_endless(stream) THEN Thrown("minmax", stream)
  ELSE Bind(FirstOrNullopt(stream),
            LAMBDA h :
              IF has_value(h.init)
              THEN Done("minmax",
                        MinMaxLoop(Loop(h.stream,
                                        optional(<<value(h.init), value(h.init)>>),
                                        1, 0, cmp)))
              ELSE Res("minmax", FALSE, 1, 0, nullopt, h.stream, "none"))

\* while(stream.next()) if(!std::invoke(pred, stream.front())) return false;
RECURSIVE AllMatchLoop(_)
AllMatchLoop(a) ==
  Bind(next(a.stream),
       LAMBDA r :
         IF r.ok
         THEN Bind(front(r.s),
                   LAMBDA f :
                     IF ~test(a.arg, f.v)
                     THEN Loop(f.s, <<FALSE>>, a.nexts + 1, a.calls + 1, a.arg)
                     ELSE Bind(Loop(f.s, a.acc, a.nexts + 1, a.calls + 1, a.arg),
                               AllMatchLoop))
         ELSE Loop(r.s, <<TRUE>>, a.nexts + 1, a.calls, a.arg))
AllMatchBuild(stream, pred) ==
  IF throw_if_endless(stream) THEN Thrown("all_match", stream)
  ELSE Done("all_match", AllMatchLoop(Loop(stream, <<>>, 0, 0, pred)))

\* while(stream.next()) if(std::invoke(pred, stream.front())) return true;
RECURSIVE AnyMatchLoop(_)
AnyMatchLoop(a) ==
  Bind(next(a.stream),
       LAMBDA r :
         IF r.ok
         THEN Bind(front(r.s),
                   LAMBDA f :
                     IF test(a.arg, f.v)
                     THEN Loop(f.s, <<TRUE>>, a.nexts + 1, a.calls + 1, a.arg)
                     ELSE Bind(Loop(f.s, a.acc, a.nexts + 1, a.calls + 1, a.arg),
                               AnyMatchLoop))
         ELSE Loop(r.s, <<FALSE>>, a.nexts + 1, a.calls, a.arg))
AnyMatchBuild(stream, pred) ==
  IF throw_if_endless(stream) THEN Thrown("any_match", stream)
  ELSE Done("any_match", AnyMatchLoop(Loop(stream, <<>>, 0, 0, pred)))

\* while(stream.next()) if(std::invoke(pred, stream.front())) return false;
RECURSIVE NoneMatchLoop(_)
NoneMatchLoop(a) ==
  Bind(next(a.stream),
       LAMBDA r :
         IF r.ok
         THEN Bind(front(r.s),
                   LAMBDA f :
                     IF test(a.arg, f.v)
                     THEN Loop(f.s, <<FALSE>>, a.nexts + 1, a.calls + 1, a.arg)
                     ELSE Bind(Loop(f.s, a.acc, a.nexts + 1, a.calls + 1, a.arg),
                               NoneMatchLoop))
         ELSE Loop(r.s, <<TRUE>>, a.nexts + 1, a.calls, a.arg))
NoneMatchBuild(stream, pred) ==
  IF throw_if_endless(stream) THEN Thrown("none_match", stream)
  ELSE Done("none_match", NoneMatchLoop(Loop(stream, <<>>, 0, 0, pred)))

\* while(stream.next()) ++counter;   (acc is <<counter>>, no front() is made)
RECURSIVE CountLoop(_)
CountLoop(a) ==
  Bind(next(a.stream),
       LAMBDA r :
         IF r.ok
         THEN Bind(Loop(r.s, <<a.acc[1] + 1>>, a.nexts + 1, a.calls + 1, a.arg),
                   CountLoop)
         ELSE Loop(r.s, a.acc, a.nexts + 1, a.calls, a.arg))
CountBuild(stream, counter) ==
  IF throw_if_endless(stream) THEN Thrown("count", stream)
  ELSE Done("count", CountLoop(Loop(stream, <<counter>>, 0, 0, "increment")))

\* collect(container, collector): stream >> for_each(bind(collector, ref(container), _1));
\* the collector is push_back and the container starts empty
CollectBuild(stream) ==
  Bind(ForEachBuild(stream), LAMBDA r : [r EXCEPT !.op = "collect"])

\* first(): stream.next() ? std::optional(stream.front()) : std::nullopt
FirstBuild(stream) ==
  Bind(FirstOrNullopt(stream),
       LAMBDA h : Res("first", FALSE, 1, 0, h.init, h.stream, h.fault))

\* element_at(pos): stream >> skip(pos) >> first().  s is the stream handed
\* in, as the SkipStream holds it afterwards.
ElementAtBuild(stream, pos) ==
  Bind(FirstBuild(skip(stream, pos)),
       LAMBDA r : [r EXCEPT !.op = "element_at", !.s = r.s.stream])

\* ================================================================ state
VARIABLES
  shape,    \* how the pipeline was built: [ctor, args, pred, count]
  stream,   \* the pipeline object
  pc,       \* where its consumer stands
  out,      \* the elements front has returned, in order
  fault,    \* "none", or how a front call went wrong
  answer,   \* what endless() returned when asked, as an optional
  res,      \* what the terminal operation applied to the pipeline did
  log,      \* the consumer's next() calls so far and what they returned
  heap,     \* the StreamHolder instances allocated with new, by address
  holder,   \* each AnyStream variable's holder pointer, 0 for nullptr
  alive,    \* which AnyStream variables are within their lifetime
  got,      \* what front() returned through each AnyStream variable
  ready,    \* whether the variable's latest next() returned true
  misuse    \* "none", or the first use made of a released instance

pipeVars == <<shape, stream, pc, out, fault, answer, res, log>>
anyVars == <<heap, holder, alive, got, ready, misuse>>
vars == <<pipeVars, anyVars>>

\* ------------------------------------------- the heap behind AnyStream
Wrappers == {"a", "b"}
Addr == 1..MaxAlloc
Instance(state, s, releases) ==
  [state |-> state, stream |-> s, releases |-> releases]
NoHeap == [x \in Addr |-> Instance("free", EmptyStream, 0)]
HasFree(h) == \E x \in Addr : h[x].state = "free"
Fresh(h) == CHOOSE x \in Addr : h[x].state = "free" /\ \A y \in 1..x - 1 : h[y].state # "free"
NoWrappers ==
  /\ heap = NoHeap
  /\ holder = [w \in Wrappers |-> 0]
  /\ alive = [w \in Wrappers |-> FALSE]
  /\ got = [w \in Wrappers |-> <<>>]
  /\ ready = [w \in Wrappers |-> FALSE]
  /\ misuse = "none"

\* the container wrapped: 0, 1, ... ; what a released instance may seem to hold
Ramp(n) == [i \in 1..n |-> (i - 1) % (MaxVal + 1)]
Container == Ramp(MaxLen)
Garbage == {Ramp(n) : n \in 0..MaxLen}

\* new StreamHolder(stream): the heap afterwards and the pointer returned
New(h, s) ==
  [heap |-> [h EXCEPT ![Fresh(h)] = Instance("live", s, 0)], p |-> Fresh(h)]
\* delete holder: nothing for nullptr, else the instance is released
Delete(h, p) ==
  IF p = 0 THEN h
  ELSE [h EXCEPT ![p].state = "released", ![p].releases = @ + 1]
\* a copy that shares the instance instead of cloning it
cloneShared(h, p) == [heap |-> h, p |-> p]
\* StreamHolder::clone: new StreamHolder(stream)
clone(h, p) == New(h, h[p].stream)
\* other.holder ? other.holder->clone() : nullptr
cloneOrNull(h, p) == IF p = 0 THEN [heap |-> h, p |-> 0] ELSE clone(h, p)
Released(h, p) == p # 0 /\ h[p].state = "released"

\* the calls of next() a consumer has made: how many, how many returned
\* true, how many false, and what the latest returned
Log(nexts, trues, falses, last) ==
  [nexts |-> nexts, trues |-> trues, falses |-> falses, last |-> last]
NoLog == Log(0, 0, 0, FALSE)

\* ------------------------------------------------------ pipeline shapes
Short == {d \in Data : Len(d) <= 1}
Finite == {from(d) : d \in Data}
FiniteShort == {from(d) : d \in Short}
Iotas == {iota(first, step) : first \in {0, 1}, step \in {1, IntMod - 1}}
Bounded == {take(iota(0, 1), n) : n \in {0, MaxCount}}
\* every start and every step of the element type, first < step included
AllIotas == {iota(first, step) : first \in 0..(IntMod - 1), step \in 0..(IntMod - 1)}
Parts == Finite \cup Iotas \cup Bounded
SmallParts == FiniteShort \cup {iota(0, 1)}

Shape(ctor, args, pred, count) ==
  [ctor |-> ctor, args |-> args, pred |-> pred, count |-> count]
\* the sources over a sequence, each with the name of the factory that made it
Factories ==
  {"from_endless_iterator", "from_iterator", "from", "from_unchecked_iterator",
   "from_unchecked"}
Make(factory, data) ==
  CASE factory = "from_endless_iterator" -> from_endless_iterator(data)
    [] factory = "from_iterator" -> from_iterator(data)
    [] factory = "from" -> from(data)
    [] factory = "from_unchecked_iterator" -> from_unchecked_iterator(data)
    [] factory = "from_unchecked" -> from_unchecked(data)
FactoryShapes ==
  {Shape("factory", <<Make(f, d)>>, f, 0) : f \in Factories, d \in Data}
Shapes ==
  {Shape("source", <<a>>, "", 0) : a \in Parts \cup AllIotas \cup {EmptyStream}}
  \cup {Shape("take", <<a>>, "", n) : a \in Parts, n \in 0..MaxCount}
  \cup {Shape("skip", <<a>>, "", n) : a \in Parts, n \in 0..MaxCount}
  \cup {Shape("tail_repeat", <<a>>, "", 0) : a \in Finite \cup {EmptyStream}}
  \cup {Shape("join", <<a, b>>, "", 0) : a \in Parts, b \in Parts}
  \cup {Shape("join", <<a, b, c>>, "", 0) :
          a \in SmallParts, b \in SmallParts, c \in SmallParts}
  \cup {Shape("combine", <<a, b>>, p, 0) : a \in Parts, b \in Parts, p \in Preds}
  \cup {Shape("combine", <<a, b, c>>, p, 0) :
          a \in SmallParts, b \in SmallParts, c \in SmallParts, p \in Preds}
  \cup {Shape("flat", <<>>, "", 0)}
  \cup {Shape("flat", <<a>>, "", 0) : a \in SmallParts}
  \cup {Shape("flat", <<a, b>>, "", 0) : a \in SmallParts, b \in SmallParts}
  \cup FactoryShapes

Build(sh) ==
  CASE sh.ctor = "source" -> sh.args[1]
    [] sh.ctor = "take" -> take(sh.args[1], sh.count)
    [] sh.ctor = "skip" -> skip(sh.args[1], sh.count)
    [] sh.ctor = "tail_repeat" -> tail_repeat(sh.args[1])
    [] sh.ctor = "join" -> join_streams(sh.args)
    [] sh.ctor = "combine" -> combine_streams(sh.pred, sh.args)
    [] sh.ctor = "flat" -> flat(sh.args)
    [] sh.ctor = "factory" -> sh.args[1]
    [] sh.ctor = "skip_take" -> take(sh.args[1], sh.count)
    [] sh.ctor = "loop_take" -> take(loop(sh.args[1]), sh.count)

\* --------------------------------------------------- driving a pipeline
Init ==
  /\ shape \in Shapes
  /\ stream = Build(shape)
  /\ pc = "run"
  /\ out = <<>>
  /\ fault = "none"
  /\ answer = nullopt
  /\ res = NoRes
  /\ log = NoLog
  /\ NoWrappers

\* one call of next() by the consumer; a run in which front() went wrong is
\* not followed further
Advance ==
  /\ pc = "run"
  /\ fault = "none"
  /\ Len(out) < MaxOut
  /\ \E r \in {next(stream)} :
       /\ stream' = r.s
       /\ pc' = IF r.ok THEN "front" ELSE "done"
  /\ UNCHANGED <<shape, out, fault, answer, res, log, anyVars>>

\* the call of front() that follows a next() that returned true.  A throwing
\* front ends the run; a front that reads what is not there either crashes
\* or hands back some value.
Front ==
  /\ pc = "front"
  /\ \E f \in {front(stream)} :
         \/ /\ f.def = "value"
            /\ stream' = f.s
            /\ out' = Append(out, f.v)
            /\ pc' = "run"
            /\ UNCHANGED fault
         \/ /\ f.def # "value"
            /\ fault' = f.def
            /\ pc' = "crashed"
            /\ UNCHANGED <<stream, out>>
         \/ /\ f.def = "undefined"
            /\ fault' = f.def
            /\ \E v \in Values : out' = Append(out, v)
            /\ stream' = f.s
            /\ pc' = "run"
  /\ UNCHANGED <<shape, answer, res, log, anyVars>>

\* a call of endless() on the pipeline, at any point of its life
CallEndless ==
  /\ answer = nullopt
  /\ answer' = optional(endless(stream))
  /\ UNCHANGED <<shape, stream, pc, out, fault, res, log, anyVars>>

Next == Advance \/ Front \/ CallEndless

Spec == Init /\ [][Next]_vars

\* Draining: next() again and again until it returns false, no front().
Drain ==
  /\ pc = "run"
  /\ \E r \in {next(stream)} :
       /\ stream' = r.s
       /\ pc' = IF r.ok THEN "run" ELSE "done"
  /\ UNCHANGED <<shape, out, fault, answer, res, log, anyVars>>

\* the pipelines drained: every combinator over short containers, bounded
\* and unbounded progressions
DrainParts == SmallParts \cup Bounded
DrainShapes ==
  {sh \in Shapes : \A i \in DOMAIN sh.args : sh.args[i] \in DrainParts}

InitDrain ==
  /\ shape \in DrainShapes
  /\ stream = Build(shape)
  /\ pc = "run"
  /\ out = <<>>
  /\ fault = "none"
  /\ answer = nullopt
  /\ res = NoRes
  /\ log = NoLog
  /\ NoWrappers

\* The drain loop runs on: a loop in straight-line code takes its next step.
SpecDrain == InitDrain /\ [][Drain]_vars /\ WF_vars(Drain)

\* ------------------------------------------- one stage over a probed upstream
\* The consumer calls next() whenever it likes - after a true it did not
\* read, after a false - and front() only after a next() that returned true.
Counts == 0..MaxCount \cup {SizeMod - 1}
Upstreams == Finite \cup {iota(0, 1)}
Inners == {Probe(s) : s \in FiniteShort}
StageShapes ==
  {Shape("tail_repeat", <<a>>, "", 0) : a \in Finite}
  \cup {Shape("tail_repeat_skip", <<a>>, "", n) : a \in Finite, n \in 0..MaxCount}
  \cup {Shape("take", <<a>>, "", n) : a \in Upstreams, n \in Counts}
  \cup {Shape("skip", <<a>>, "", n) : a \in Upstreams, n \in Counts}
  \cup {Shape("take_while", <<a>>, p, 0) : a \in Upstreams, p \in Predicates}
  \cup {Shape("endless_flat", <<>>, "", 0)}
  \cup {Shape("endless_flat", <<a>>, "", 0) : a \in Inners}
  \cup {Shape("endless_flat", <<a, b>>, "", 0) : a \in Inners, b \in Inners}
  \cup {Shape("endless_flat", <<a, b, c>>, "", 0) :
          a \in Inners, b \in Inners, c \in Inners}

BuildStage(sh) ==
  CASE sh.ctor = "tail_repeat" -> tail_repeat(Probe(sh.args[1]))
    [] sh.ctor = "tail_repeat_skip" -> skip(tail_repeat(Probe(sh.args[1])), sh.count)
    [] sh.ctor = "take" -> take(Probe(sh.args[1]), sh.count)
    [] sh.ctor = "skip" -> skip(Probe(sh.args[1]), sh.count)
    [] sh.ctor = "take_while" -> take_while(Probe(sh.args[1]), sh.pred)
    [] sh.ctor = "endless_flat" -> endless_flat(Probe(from(sh.args)))

InitStage ==
  /\ shape \in StageShapes
  /\ stream = BuildStage(shape)
  /\ pc = "run"
  /\ out = <<>>
  /\ fault = "none"
  /\ answer = nullopt
  /\ res = NoRes
  /\ log = NoLog
  /\ NoWrappers

\* one call of next() by the consumer
Pull ==
  /\ pc \in {"run", "front", "done"}
  /\ fault = "none"
  /\ log.nexts < MaxPulls
  /\ \E r \in {next(stream)} :
       /\ stream' = r.s
       /\ pc' = IF r.ok THEN "front" ELSE "done"
       /\ log' = Log(log.nexts + 1,
                     log.trues + (IF r.ok THEN 1 ELSE 0),
                     log.falses + (IF r.ok THEN 0 ELSE 1),
                     r.ok)
  /\ UNCHANGED <<shape, out, fault, answer, res, anyVars>>

NextStage == Pull \/ Front

SpecStage == InitStage /\ [][NextStage]_vars

\* ------------------------------------------- inside one call of loop's next()
\* LoopStream::next step by step: the test of the while condition and the
\* reset in its body are steps of their own, so that a call that never
\* returns is a run that never leaves them.  pc is "test" at the first test
\* of a call and "retest" after a reset, "reset" before the first reset of a
\* call and "reset_again" before any later one.
LoopShapes == {Shape("loop", <<a>>, "", 0) : a \in Finite}

InitLoop ==
  /\ shape \in LoopShapes
  /\ stream = loop(shape.args[1])
  /\ pc = "run"
  /\ out = <<>>
  /\ fault = "none"
  /\ answer = nullopt
  /\ res = NoRes
  /\ log = NoLog
  /\ NoWrappers

\* the consumer calls next()
LoopCall ==
  /\ pc \in {"run", "front"}
  /\ log.nexts < MaxPulls
  /\ pc' = "test"
  /\ UNCHANGED <<shape, stream, out, fault, answer, res, log, anyVars>>

\* while(!stream.next()): the condition; a true from the upstream ends the
\* loop and the call returns true
LoopTest ==
  /\ pc \in {"test", "retest"}
  /\ \E r \in {next(stream.stream)} :
       /\ stream' = [stream EXCEPT !.stream = r.s]
       /\ IF r.ok
          THEN /\ pc' = "front"
               /\ log' = Log(log.nexts + 1, log.trues + 1, log.falses, TRUE)
          ELSE /\ pc' = IF pc = "test" THEN "reset" ELSE "reset_again"
               /\ UNCHANGED log
  /\ UNCHANGED <<shape, out, fault, answer, res, anyVars>>

\* stream = cache;
LoopReset ==
  /\ pc \in {"reset", "reset_again"}
  /\ stream' = [stream EXCEPT !.stream = stream.cache]
  /\ pc' = "retest"
  /\ UNCHANGED <<shape, out, fault, answer, res, log, anyVars>>

NextLoop == LoopCall \/ LoopTest \/ LoopReset \/ Front

\* A call in progress goes on: straight-line code takes its next step.
SpecLoop ==
  InitLoop /\ [][NextLoop]_vars /\ WF_vars(LoopTest) /\ WF_vars(LoopReset)

\* ------------------------------------------- applying a terminal builder
\* stream >> builder with stream an lvalue: build() works on a copy, the
\* pipeline object itself stays as it was.
TermShapes ==
  {sh \in Shapes : sh.ctor \in {"source", "take", "skip", "tail_repeat"}}
  \cup {sh \in Shapes : sh.ctor = "join" /\ \A i \in DOMAIN sh.args : sh.args[i] \in SmallParts}
  \cup {Shape("take", <<a>>, "", SizeMod - 1) : a \in Finite}
  \cup {Shape("skip_take", <<skip(a, n)>>, "", m) : a \in Finite, n \in Counts, m \in Counts}
  \cup UNION {{Shape("loop_take", <<from(d)>>, "", k * Len(d)) :
                  k \in 0..((SizeMod - 1) \div Len(d))} : d \in Data \ {<<>>}}
  \cup {sh \in Shapes : sh.ctor = "flat" /\ \A i \in DOMAIN sh.args : sh.args[i] \in FiniteShort}

InitTerm ==
  /\ shape \in TermShapes
  /\ stream = Build(shape)
  /\ pc = "ready"
  /\ out = <<>>
  /\ fault = "none"
  /\ answer = nullopt
  /\ res = NoRes
  /\ log = NoLog
  /\ NoWrappers

Returned ==
  /\ pc' = "returned"
  /\ UNCHANGED <<shape, stream, out, fault, answer, log, anyVars>>

ForEach == pc = "ready" /\ res' = ForEachBuild(stream) /\ Returned
Reduce == pc = "ready" /\ res' = ReduceBuild(stream) /\ Returned
Min == pc = "ready" /\ (\E cmp \in Compares : res' = MinBuild(stream, cmp)) /\ Returned
Max == pc = "ready" /\ (\E cmp \in Compares : res' = MaxBuild(stream, cmp)) /\ Returned
MinMax ==
  pc = "ready" /\ (\E cmp \in Compares : res' = MinMaxBuild(stream, cmp)) /\ Returned
AllMatch ==
  pc = "ready" /\ (\E pred \in Predicates : res' = AllMatchBuild(stream, pred)) /\ Returned
AnyMatch ==
  pc = "ready" /\ (\E pred \in Predicates : res' = AnyMatchBuild(stream, pred)) /\ Returned
NoneMatch ==
  pc = "ready" /\ (\E pred \in Predicates : res' = NoneMatchBuild(stream, pred)) /\ Returned
Count == pc = "ready" /\ res' = CountBuild(stream, 0) /\ Returned
Collect == pc = "ready" /\ res' = CollectBuild(stream) /\ Returned
ElementAt ==
  pc = "ready" /\ (\E pos \in 0..MaxCount : res' = ElementAtBuild(stream, pos)) /\ Returned
First == pc = "ready" /\ res' = FirstBuild(stream) /\ Returned

NextTerm ==
  \/ ForEach \/ Reduce \/ Min \/ Max \/ MinMax \/ AllMatch \/ AnyMatch
  \/ NoneMatch \/ Count \/ Collect \/ ElementAt \/ First

SpecTerm == InitTerm /\ [][NextTerm]_vars

\* --------------------------------------------------- AnyStream variables
\* A use of a released instance is undefined: it is recorded in misuse, its
\* outcome is any the heap could give, and the run is not followed further.
InitAny ==
  /\ shape = Shape("none", <<>>, "", 0)
  /\ stream = EmptyStream
  /\ pc = "any"
  /\ out = <<>>
  /\ fault = "none"
  /\ answer = nullopt
  /\ res = NoRes
  /\ log = NoLog
  /\ NoWrappers

\* AnyStream()
DefaultConstruct(w) ==
  /\ misuse = "none" /\ ~alive[w]
  /\ alive' = [alive EXCEPT ![w] = TRUE]
  /\ holder' = [holder EXCEPT ![w] = 0]
  /\ got' = [got EXCEPT ![w] = <<>>]
  /\ ready' = [ready EXCEPT ![w] = FALSE]
  /\ UNCHANGED <<heap, misuse, pipeVars>>

\* AnyStream(Stream const& stream)
Construct(w) ==
  /\ misuse = "none" /\ ~alive[w] /\ HasFree(heap)
  /\ \E n \in {New(heap, from(Container))} :
       /\ heap' = n.heap
       /\ holder' = [holder EXCEPT ![w] = n.p]
  /\ alive' = [alive EXCEPT ![w] = TRUE]
  /\ got' = [got EXCEPT ![w] = <<>>]
  /\ ready' = [ready EXCEPT ![w] = FALSE]
  /\ UNCHANGED <<misuse, pipeVars>>

\* AnyStream(AnyStream const& other)
CopyConstruct(w, o) ==
  /\ misuse = "none" /\ ~alive[w] /\ alive[o] /\ HasFree(heap)
  /\ IF Released(heap, holder[o])
     THEN /\ misuse' = "clone"
          /\ \E d \in Garbage : \E n \in {New(heap, from(d))} :
               /\ heap' = n.heap
               /\ holder' = [holder EXCEPT ![w] = n.p]
     ELSE /\ \E n \in {cloneOrNull(heap, holder[o])} :
               /\ heap' = n.heap
               /\ holder' = [holder EXCEPT ![w] = n.p]
          /\ UNCHANGED misuse
  /\ alive' = [alive EXCEPT ![w] = TRUE]
  /\ got' = [got EXCEPT ![w] = got[o]]
  /\ ready' = [ready EXCEPT ![w] = ready[o]]
  /\ UNCHANGED pipeVars

\* AnyStream(AnyStream&& other)
MoveConstruct(w, o) ==
  /\ misuse = "none" /\ ~alive[w] /\ alive[o]
  /\ holder' = [holder EXCEPT ![o] = 0, ![w] = holder[o]]
  /\ alive' = [alive EXCEPT ![w] = TRUE]
  /\ got' = [got EXCEPT ![o] = <<>>, ![w] = got[o]]
  /\ ready' = [ready EXCEPT ![o] = FALSE, ![w] = ready[o]]
  /\ UNCHANGED <<heap, misuse, pipeVars>>

\* operator=(Stream const& stream): delete holder; holder = new StreamHolder(stream);
AssignStream(w) ==
  /\ misuse = "none" /\ alive[w] /\ HasFree(heap)
  /\ \E n \in {New(Delete(heap, holder[w]), from(Container))} :
       /\ heap' = n.heap
       /\ holder' = [holder EXCEPT ![w] = n.p]
  /\ misuse' = IF Released(heap, holder[w]) THEN "release" ELSE "none"
  /\ got' = [got EXCEPT ![w] = <<>>]
  /\ ready' = [ready EXCEPT ![w] = FALSE]
  /\ UNCHANGED <<alive, pipeVars>>

\* operator=(AnyStream const& other), other possibly *this:
\* delete holder; holder = other.holder ? other.holder->clone() : nullptr;
CopyAssign(w, o) ==
  /\ misuse = "none" /\ alive[w] /\ alive[o] /\ HasFree(heap)
  /\ \E h \in {Delete(heap, holder[w])} :
       IF Released(heap, holder[w])
       THEN /\ misuse' = "release"
            /\ heap' = h
            /\ UNCHANGED holder
       ELSE IF Released(h, holder[o])
       THEN /\ misuse' = "clone"
            /\ \E d \in Garbage : \E n \in {New(h, from(d))} :
                 /\ heap' = n.heap
                 /\ holder' = [holder EXCEPT ![w] = n.p]
       ELSE /\ \E n \in {cloneOrNull(h, holder[o])} :
                 /\ heap' = n.heap
                 /\ holder' = [holder EXCEPT ![w] = n.p]
            /\ UNCHANGED misuse
  /\ got' = [got EXCEPT ![w] = got[o]]
  /\ ready' = [ready EXCEPT ![w] = ready[o]]
  /\ UNCHANGED <<alive, pipeVars>>

\* operator=(AnyStream&& other), other possibly *this:
\* delete holder; holder = std::exchange(other.holder, nullptr);
MoveAssign(w, o) ==
  /\ misuse = "none" /\ alive[w] /\ alive[o]
  /\ heap' = Delete(heap, holder[w])
  /\ misuse' = IF Released(heap, holder[w]) THEN "release" ELSE "none"
  /\ holder' = [[holder EXCEPT ![o] = 0] EXCEPT ![w] = holder[o]]
  /\ got' = [[got EXCEPT ![o] = <<>>] EXCEPT ![w] = got[o]]
  /\ ready' = [[ready EXCEPT ![o] = FALSE] EXCEPT ![w] = ready[o]]
  /\ UNCHANGED <<alive, pipeVars>>

\* ~AnyStream(): delete holder;
Destroy(w) ==
  /\ misuse = "none" /\ alive[w]
  /\ heap' = Delete(heap, holder[w])
  /\ misuse' = IF Released(heap, holder[w]) THEN "release" ELSE "none"
  /\ alive' = [alive EXCEPT ![w] = FALSE]
  /\ UNCHANGED <<holder, got, ready, pipeVars>>

\* next(): holder->next(), on a wrapper that holds a stream; the caller has
\* read the element it advanced to before
NextOn(w) ==
  /\ misuse = "none" /\ alive[w] /\ holder[w] # 0 /\ ~ready[w]
  /\ IF Released(heap, holder[w])
     THEN /\ misuse' = "read"
          /\ ready' \in {[ready EXCEPT ![w] = b] : b \in BOOLEAN}
          /\ UNCHANGED heap
     ELSE /\ \E r \in {next(heap[holder[w]].stream)} :
               /\ heap' = [heap EXCEPT ![holder[w]].stream = r.s]
               /\ ready' = [ready EXCEPT ![w] = r.ok]
          /\ UNCHANGED misuse
  /\ UNCHANGED <<holder, alive, got, pipeVars>>

\* front(): holder->front(), after a next() that returned true
FrontOn(w) ==
  /\ misuse = "none" /\ alive[w] /\ holder[w] # 0 /\ ready[w]
  /\ IF Released(heap, holder[w])
     THEN /\ misuse' = "read"
          /\ \E v \in Values : got' = [got EXCEPT ![w] = Append(@, v)]
          /\ UNCHANGED heap
     ELSE /\ \E f \in {front(heap[holder[w]].stream)} :
               /\ heap' = [heap EXCEPT ![holder[w]].stream = f.s]
               /\ got' = [got EXCEPT ![w] = Append(@, f.v)]
          /\ UNCHANGED misuse
  /\ ready' = [ready EXCEPT ![w] = FALSE]
  /\ UNCHANGED <<holder, alive, pipeVars>>

NextAny ==
  \/ \E w \in Wrappers : DefaultConstruct(w)
  \/ \E w \in Wrappers : Construct(w)
  \/ \E w, o \in Wrappers : w # o /\ CopyConstruct(w, o)
  \/ \E w, o \in Wrappers : w # o /\ MoveConstruct(w, o)
  \/ \E w \in Wrappers : AssignStream(w)
  \/ \E w, o \in Wrappers : CopyAssign(w, o)
  \/ \E w, o \in Wrappers : MoveAssign(w, o)
  \/ \E w \in Wrappers : Destroy(w)
  \/ \E w \in Wrappers : NextOn(w)
  \/ \E w \in Wrappers : FrontOn(w)

SpecAny == InitAny /\ [][NextAny]_vars

\* Wrap a stream in a, copy a to b, pull from the two in any order.
NextCopy ==
  \/ Construct("a")
  \/ CopyConstruct("b", "a")
  \/ \E w \in Wrappers : NextOn(w)
  \/ \E w \in Wrappers : FrontOn(w)
  \/ \E w \in Wrappers : Destroy(w)

SpecCopy == InitAny /\ [][NextCopy]_vars

\* =============================================================== claims
IsFrom(s) == s.kind = "Iterator" /\ ~s.unchecked
AllFrom(streams) == \A i \in DOMAIN streams : IsFrom(streams[i])
RECURSIVE Concat(_)
Concat(streams) ==
  IF streams = <<>> THEN <<>> ELSE streams[1].data \o Concat(Tail(streams))
IsPrefix(a, b) == Len(a) <= Len(b) /\ \A i \in DOMAIN a : a[i] = b[i]
Shortest(streams) ==
  CHOOSE n \in 0..MaxLen + 1 :
    /\ \A i \in DOMAIN streams : n <= Len(streams[i].data)
    /\ \E i \in DOMAIN streams : n = Len(streams[i].data)

\* C1, as claimed: every terminal operation applied to a stream whose
\* endless() is true throws, makes no next() call and invokes no callable.
Refused == res.thrown /\ res.nexts = 0 /\ res.calls = 0 /\ res.s = stream
Unchecked == {"first", "element_at"}
C2_NotEndlessDrains == (pc = "run" /\ ~endless(stream)) ~> (pc = "done")

\* C3: whenever the latest next() returned true, the front() that follows
\* reads a value that is there.
C3_FrontDefinedAfterNext == pc = "front" => front(stream).def = "value"

\* C6: min, max and minmax return the first of the equally ranked smallest
\* (largest) elements, and nothing on an empty stream.
Elements == ForEachBuild(stream).ret
Smallest(cmp) ==
  {i \in DOMAIN Elements :
     \A j \in DOMAIN Elements : ~compare(cmp, Elements[j], Elements[i])}
Largest(cmp) ==
  {i \in DOMAIN Elements :
     \A j \in DOMAIN Elements : ~compare(cmp, Elements[i], Elements[j])}
FirstOf(S) == Elements[CHOOSE i \in S : \A j \in S : i <= j]
LastOf(S) == Elements[CHOOSE i \in S : \A j \in S : i >= j]
C6_MinMaxLeftBiased ==
  (pc = "returned" /\ res.op \in {"min", "max", "minmax"} /\ ~res.thrown) =>
    IF Elements = <<>> THEN res.ret = nullopt
    ELSE CASE res.op = "min" -> res.ret = optional(FirstOf(Smallest(res.arg)))
           [] res.op = "max" -> res.ret = optional(FirstOf(Largest(res.arg)))
           [] res.op = "minmax" ->
                res.ret = optional(<<FirstOf(Smallest(res.arg)),
                                     FirstOf(Largest(res.arg))>>)

\* C7: combine never returns true from next() for a tick whose function
\* result is absent.
C7_CombineSkipsAbsent ==
  (shape.ctor = "combine" /\ pc = "front") => has_value(stream.cache)

\* C8: combine of finite containers with a function that is never absent
\* yields f of the i-th elements for i up to the shortest length, and next()
\* returns false in the first cycle in which a constituent fails.
CombineCase ==
  shape.ctor = "combine" /\ shape.pred \in TotalPreds /\ AllFrom(shape.args)
CombineExpected(i) ==
  value(invoke(shape.pred, [k \in DOMAIN shape.args |-> shape.args[k].data[i]]))
C8_CombineZipsToShortest ==
  CombineCase =>
    /\ fault = "none"
    /\ Len(out) <= Shortest(shape.args)
    /\ \A i \in DOMAIN out : out[i] = CombineExpected(i)
    /\ pc = "front" => Len(out) < Shortest(shape.args)
    /\ pc = "done" => Len(out) = Shortest(shape.args)
C8_Witness ==
  /\ CombineCase
  /\ pc = "done"
  /\ Len(out) >= 1
  /\ \E i, j \in DOMAIN shape.args :
       Len(shape.args[i].data) < Len(shape.args[j].data)

\* C9: endless() of join is true iff some constituent's is, endless() of
\* combine is true iff every constituent's is, and the call leaves the
\* pipeline as it was.
EndlessExpected ==
  IF shape.ctor = "join" THEN \E i \in DOMAIN shape.args : endless(shape.args[i])
  ELSE \A i \in DOMAIN shape.args : endless(shape.args[i])
C9_JoinAnyCombineAll ==
  [][(shape.ctor \in {"join", "combine"} /\ answer' # answer) =>
       (value(answer') = EndlessExpected /\ stream' = stream)]_vars
C9_Witness ==
  /\ shape.ctor = "join"
  /\ Len(shape.args) = 3
  /\ ~endless(shape.args[1])
  /\ Len(out) >= 1
  /\ answer = optional(TRUE)

\* C10: join of finite containers yields the first one's elements, then the
\* second's, and so on; each front() reads the constituent that produced
\* the element.
JoinCase == shape.ctor = "join" /\ AllFrom(shape.args)
C10_JoinConcatenates ==
  JoinCase =>
    /\ fault = "none"
    /\ IsPrefix(out, Concat(shape.args))
    /\ pc = "front" =>
         /\ Len(out) < Len(Concat(shape.args))
         /\ front(stream).def = "value"
         /\ front(stream).v = Concat(shape.args)[Len(out) + 1]
    /\ pc = "done" => out = Concat(shape.args)
C10_Witness ==
  /\ JoinCase
  /\ Len(shape.args) = 3
  /\ shape.args[1].data = <<>>
  /\ pc = "done"
  /\ Len(out) >= 2

\* C4: an instance is released at most once, a released instance is never
\* cloned, read or released again, and when no wrapper is left alive no
\* instance is left allocated - under construction, copy, move, the three
\* assignments (self-assignment included) and destruction.
C4_AnyStreamMemorySafe ==
  /\ misuse = "none"
  /\ \A x \in Addr : heap[x].releases <= 1
  /\ (\A w \in Wrappers : ~alive[w]) => \A x \in Addr : heap[x].state # "live"

\* C5: a copy-constructed wrapper owns an instance of its own; each wrapper's
\* position is the number of elements pulled through it alone, what it has
\* yielded is a prefix of the wrapped container, and once it is exhausted it
\* has yielded the whole container.
Pulled(w) == Len(got[w]) + (IF ready[w] THEN 1 ELSE 0)
C5_CopyIsIndependent ==
  \A w \in Wrappers : (pc = "any" /\ alive[w] /\ holder[w] # 0) =>
    /\ \A o \in Wrappers \ {w} : alive[o] => holder[o] # holder[w]
    /\ heap[holder[w]].state = "live"
    /\ heap[holder[w]].stream.upcoming = Pulled(w) + 1
    /\ IsPrefix(got[w], Container)
    /\ (~ready[w] /\ ~next(heap[holder[w]].stream).ok) => got[w] = Container
\* the original is drained and the copy, taken before, has not moved
C5_Witness ==
  /\ alive["a"] /\ alive["b"] /\ holder["a"] # 0 /\ holder["b"] # 0
  /\ got["a"] = Container /\ ~next(heap[holder["a"]].stream).ok
  /\ got["b"] = <<>> /\ ~ready["b"]
  /\ heap[holder["b"]].stream = from(Container)

\* C11: once the upstream of tail_repeat has returned false, the latch stays,
\* every later next() returns true and every later front() returns the last
\* element the upstream produced, whether or not the consumer read it.
TailRepeatCase ==
  shape.ctor \in {"tail_repeat", "tail_repeat_skip"} /\ shape.args[1].data # <<>>
Repeater == IF shape.ctor = "tail_repeat" THEN stream ELSE stream.stream
LastProduced == shape.args[1].data[Len(shape.args[1].data)]
C11_TailRepeatLatchesLast ==
  (TailRepeatCase /\ ~Repeater.left) =>
    /\ next(Repeater).ok
    /\ ~next(Repeater).s.left
    /\ front(Repeater).def = "value"
    /\ front(Repeater).v = LastProduced

\* C12: take(n) then count over a container of length L yields min(n, L), for
\* every n a size_t holds, the largest included.
Min2(a, b) == IF a < b THEN a ELSE b
TakeCountCase ==
  pc = "returned" /\ res.op = "count" /\ shape.ctor = "take" /\ IsFrom(shape.args[1])
C12_TakeThenCount ==
  TakeCountCase =>
    /\ ~res.thrown
    /\ res.ret = <<Min2(shape.count, Len(shape.args[1].data))>>

\* C13: draining skip(n) then take(m) over a container of length L yields the
\* elements at positions n .. n + min(m, L - n) - 1, none if n >= L.
SkipTakeCase == pc = "returned" /\ res.op = "for_each" /\ shape.ctor = "skip_take"
Skipped == (shape.args[1].count - 1) % SizeMod
Source == shape.args[1].stream.data
C13_SkipThenTake ==
  SkipTakeCase =>
    /\ ~res.thrown
    /\ res.ret = IF Skipped >= Len(Source) THEN <<>>
                 ELSE SubSeq(Source, Skipped + 1,
                             Skipped + Min2(shape.count, Len(Source) - Skipped))

\* C14: loop then take(k * len) over a container of length len >= 1 yields
\* the container's elements k times over.
LoopTakeCase == pc = "returned" /\ res.op = "for_each" /\ shape.ctor = "loop_take"
RECURSIVE Repeat(_, _)
Repeat(d, k) == IF k = 0 THEN <<>> ELSE d \o Repeat(d, k - 1)
C14_LoopThenTake ==
  LoopTakeCase =>
    /\ ~res.thrown
    /\ res.ret = Repeat(shape.args[1].data, shape.count \div Len(shape.args[1].data))

\* C20: flat over a finite outer stream of inner streams none of which is
\* endless is not endless, whatever the outer length, zero included, and
\* for_each on it returns having seen the concatenation.
FlatOfFinite ==
  shape.ctor = "flat" /\ \A i \in DOMAIN shape.args : ~endless(shape.args[i])
C20_FlatOfFiniteNotEndless ==
  FlatOfFinite =>
    /\ ~endless(stream)
    /\ (pc = "returned" /\ res.op = "for_each") =>
         (~res.thrown /\ res.ret = Concat(shape.args))

\* the calls a stage has made on the probe it stands on
UpNexts == stream.stream.nexts
UpFails == stream.stream.fails
\* the i-th element the upstream of the stage produces
Produced(i) ==
  IF shape.args[1].kind = "Iterator" THEN shape.args[1].data[i]
  ELSE (shape.args[1].current + i * shape.args[1].step) % IntMod

\* C15, as claimed: endless_flat makes no more next() calls on the outer
\* stream than one plus the inner streams' next() calls that returned false.
RECURSIVE Fails(_)
Fails(inners) == IF inners = <<>> THEN 0 ELSE inners[1].fails + Fails(Tail(inners))
InnerFails == Fails(stream.stream.stream.data)
C15_OuterWithinInnerExhaustions ==
  shape.ctor = "endless_flat" => UpNexts <= 1 + InnerFails
\* C15, as the code has it: one call of next() advances the outer stream at
\* most once, and only when there is no current inner stream or the current
\* inner stream's next() has just returned false; a call made after the outer
\* stream returned false asks the outer stream again, so the outer next()
\* calls are at most one plus the inner failures plus the outer failures.
C15_OuterAdvancedLazily ==
  [][shape.ctor = "endless_flat" =>
       /\ UpNexts' - UpNexts \in {0, 1}
       /\ UpNexts' > UpNexts => (~stream.left \/ InnerFails' > InnerFails)
       /\ UpNexts' <= 1 + InnerFails' + UpFails']_vars
C15_Witness ==
  /\ shape.ctor = "endless_flat"
  /\ Len(shape.args) = 3
  /\ UpNexts = 2
  /\ InnerFails = 1
  /\ Len(out) = 2

\* C16: next() of endless_flat returns false only when the outer stream is
\* exhausted, so a consumer that read every element up to the first false
\* has the concatenation of the inner streams.
InnerData(inners) ==
  IF inners = <<>> THEN <<>>
  ELSE Concat([i \in DOMAIN inners |-> inners[i].stream])
C16_EndlessFlatFalseOnlyAtEnd ==
  (shape.ctor = "endless_flat" /\ log.falses >= 1) =>
    /\ UpFails >= 1
    /\ (log.falses = 1 /\ ~log.last /\ Len(out) = log.trues) =>
         out = InnerData(shape.args)

\* C17: the first next() of skip(n) makes n + 1 next() calls on its upstream,
\* every later one exactly one, whatever the upstream's length.
C17_SkipUpstreamAdvances ==
  [][(shape.ctor = "skip" /\ log'.nexts = log.nexts + 1) =>
       UpNexts' - UpNexts = IF log.nexts = 0 THEN shape.count + 1 ELSE 1]_vars

\* C18: take(n) makes at most n next() calls on its upstream and returns true
\* at most n times; with the counter at zero next() returns false and leaves
\* the stream, its upstream included, as it was.
C18_TakeBoundsUpstream ==
  shape.ctor = "take" =>
    /\ UpNexts <= shape.count
    /\ log.trues <= shape.count
    /\ stream.count = 0 => next(stream) = [ok |-> FALSE, s |-> stream]
C18_Witness ==
  /\ shape.ctor = "take"
  /\ shape.args[1].kind = "Integer"
  /\ shape.count = 2
  /\ UpNexts = 2
  /\ log.trues = 2
  /\ log.falses = 2

\* C19: the latch of take_while is set exactly as long as the upstream has not
\* failed and the predicate has held on every element produced; the predicate
\* is invoked once per element produced; with the latch cleared next() returns
\* false and leaves the stream, its upstream and the predicate as they were.
C19_TakeWhileLatch ==
  shape.ctor = "take_while" =>
    /\ stream.left <=>
         (UpFails = 0 /\ \A i \in 1..UpNexts : test(shape.pred, Produced(i)))
    /\ stream.pred.calls = UpNexts - UpFails
    /\ ~stream.left => next(stream) = [ok |-> FALSE, s |-> stream]
C19_Witness ==
  /\ shape.ctor = "take_while"
  /\ ~stream.left
  /\ UpFails = 0
  /\ log.trues >= 1
  /\ log.falses >= 2

\* C21: every call of loop's next() returns, after at most one reset of the
\* upstream from the retained copy, for every finite upstream, the empty one
\* included.
C21_LoopNextReturns == (pc = "test") ~> (pc = "front")

\* C22: iota(first, step) never returns false from next(), and the k-th
\* element it surfaces is first + (k-1)*step modulo 2^w, whatever first and
\* step are (first < step included: the constructor's first - step wraps and
\* the first next() brings it back to first).
IotaCase(first, step) == shape = Shape("source", <<iota(first, step)>>, "", 0)
C22_IotaProgression ==
  \A first \in 0..(IntMod - 1), step \in 0..(IntMod - 1) :
    IotaCase(first, step) =>
      /\ pc \in {"run", "front"}
      /\ fault = "none"
      /\ \A k \in DOMAIN out : out[k] = (first + (k - 1) * step) % IntMod
      /\ pc = "front" =>
           front(stream) = [def |-> "value", s |-> stream,
                            v |-> (first + Len(out) * step) % IntMod]
C22_Witness ==
  \E first \in 0..(IntMod - 1), step \in 0..(IntMod - 1) :
    /\ first < step
    /\ IotaCase(first, step)
    /\ Len(out) = MaxOut
    /\ out[1] = first

\* C23: a source made by from_endless_iterator, from_unchecked_iterator or
\* from_unchecked answers true to endless(), one made by from_iterator or
\* from answers false, and the answer is the same however far the source
\* was advanced.
UncheckedFactories ==
  {"from_endless_iterator", "from_unchecked_iterator", "from_unchecked"}
C23_FactoryEndlessFlag ==
  shape.ctor = "factory" => (endless(stream) = (shape.pred \in UncheckedFactories))

====
